---- MODULE Spec2Model ----
(***************************************************************************)
(* Epic status synchronisation pipeline of src/epic_status.py:             *)
(* get_epic_info -> get_jira_issues -> analyze_with_deepseek ->            *)
(* generate_content -> find_confluence_page -> update_confluence_page,     *)
(* as sequenced by main (lines 381-391).                                   *)
(*                                                                         *)
(* Reading notes.                                                          *)
(*  - The pipeline is modelled from the read of CONFIG["epic_key"] on; the *)
(*    dependency check and the loading of CONFIG are process bootstrap.    *)
(*  - The generator expression of lines 138-143 is read with its closing   *)
(*    parenthesis.                                                         *)
(*  - String literals of the source are Cyrillic; the module is ASCII, so  *)
(*    each literal is given in English with its source line.               *)
(*  - Jira, DeepSeek and Confluence are the environment: each HTTP call    *)
(*    either raises requests.exceptions.RequestException or answers.       *)
(***************************************************************************)
EXTENDS Integers, Sequences, FiniteSets, TLC

(* ------------------------------ bounds -------------------------------- *)

\* Number of pipeline runs (processes executing main) for the same epic.
NumRuns == 2

\* Largest number of issues the tracker holds for the epic.
MaxTotal == 201

(* ------------------------- program constants -------------------------- *)

\* max_results = 100 (line 103)
max_results == 100

\* issues[:50] (line 143)
digest_limit == 50

\* CONFIG["epic_key"]
epic_key == "PROJ-1"

\* CONFIG["confluence"]["space_key"]
space_key == "TEAM"

\* Python's None: a JSON null that came through dict.get unchanged.
None == "<None>"

\* A key that is absent from a JSON object (dict.get returns its default).
Missing == "<missing>"

\* dict.get(key, default): the default for an absent key only.
Get(v, default) == IF v = Missing THEN default ELSE v

Min(a, b) == IF a < b THEN a ELSE b

Runs == 1 .. NumRuns

VARIABLES
    jira,        \* the tracker's data for the epic (read-only for the program)
    deepseek,    \* the answers the summarizer may give (read-only)
    store,       \* the document store: sequence of pages, page id = index
    pc,          \* per run: the call of main that is next, or the exit status
    epic_info,   \* per run: main's epic_info
    start_at,    \* per run: get_jira_issues' start_at
    all_issues,  \* per run: get_jira_issues' all_issues
    issues,      \* per run: main's issues (the sorted return value)
    analysis,    \* per run: main's analysis
    content,     \* per run: main's content
    page,        \* per run: main's page (find_confluence_page's return value)
    requests,    \* per run: the HTTP requests issued so far, in order
    returned,    \* per run: the calls of main that have returned, in order
    raised       \* per run: the exception that reached main's handler

vars == <<jira, deepseek, store, pc, epic_info, start_at, all_issues, issues, analysis,
          content, page, requests, returned, raised>>

(* ------------------------------ strings ------------------------------- *)

\* Timestamps are strings compared by Python's str ordering; a string is
\* modelled as the sequence of its characters' code points (digits here).
RECURSIVE StrLess(_, _)
StrLess(a, b) ==
    IF b = <<>> THEN FALSE
    ELSE IF a = <<>> THEN TRUE
    ELSE IF Head(a) < Head(b) THEN TRUE
    ELSE IF Head(a) > Head(b) THEN FALSE
    ELSE StrLess(Tail(a), Tail(b))

\* A fixed-width, zero-padded rendering of n, as in an ISO timestamp field.
Stamp(n) == <<(n \div 100) % 10, (n \div 10) % 10, n % 10>>

\* The strings that occur as texts of the tracker, of the summarizer and of
\* the rendered markup.
Texts ==
    {"",
     "Gotovo",
     "V PROGRESSE",
     "Open",
     "Gotov k progressu",
     "Progress: GOTOVO",
     "N/A",
     "Vysokij",
     "SREDNIJ",
     "Nizkij",
     "High",
     "Sredne-vysokij",
     "Fix login",
     "Add <b>bold</b>",
     "Add &lt;b&gt;bold&lt;/b&gt;",
     "Task",
     "Bug",
     "Ann O'Neil",
     "Ann O&#x27;Neil",
     "Steps & notes",
     "Steps &amp; notes",
     "Launch",
     "Launch <v2>",
     "Launch &lt;v2&gt;",
     "Ship it",
     "PROJ-1",
     "Progress 50%",
     "\\n",
     "<b>No blockers</b>",
     "&lt;b&gt;No blockers&lt;/b&gt;",
     "analysis temporarily unavailable",
     "analysis unavailable",
     "Unassigned"}

\* The characters of a text. Cyrillic letters of the source's data are
\* written with Latin letters; "LF" is the line feed.
Chars(s) ==
    CASE s = "" -> <<>>
      [] s = "Gotovo" -> <<"G", "o", "t", "o", "v", "o">>
      [] s = "V PROGRESSE" -> <<"V", " ", "P", "R", "O", "G", "R", "E", "S", "S", "E">>
      [] s = "Open" -> <<"O", "p", "e", "n">>
      [] s = "Gotov k progressu" -> <<"G", "o", "t", "o", "v", " ", "k", " ", "p", "r", "o", "g", "r", "e", "s", "s", "u">>
      [] s = "Progress: GOTOVO" -> <<"P", "r", "o", "g", "r", "e", "s", "s", ":", " ", "G", "O", "T", "O", "V", "O">>
      [] s = "N/A" -> <<"N", "/", "A">>
      [] s = "Vysokij" -> <<"V", "y", "s", "o", "k", "i", "j">>
      [] s = "SREDNIJ" -> <<"S", "R", "E", "D", "N", "I", "J">>
      [] s = "Nizkij" -> <<"N", "i", "z", "k", "i", "j">>
      [] s = "High" -> <<"H", "i", "g", "h">>
      [] s = "Sredne-vysokij" -> <<"S", "r", "e", "d", "n", "e", "-", "v", "y", "s", "o", "k", "i", "j">>
      [] s = "Fix login" -> <<"F", "i", "x", " ", "l", "o", "g", "i", "n">>
      [] s = "Add <b>bold</b>" -> <<"A", "d", "d", " ", "<", "b", ">", "b", "o", "l", "d", "<", "/", "b", ">">>
      [] s = "Add &lt;b&gt;bold&lt;/b&gt;" -> <<"A", "d", "d", " ", "&", "l", "t", ";", "b", "&", "g", "t", ";", "b", "o", "l", "d", "&", "l", "t", ";", "/", "b", "&", "g", "t", ";">>
      [] s = "Task" -> <<"T", "a", "s", "k">>
      [] s = "Bug" -> <<"B", "u", "g">>
      [] s = "Ann O'Neil" -> <<"A", "n", "n", " ", "O", "'", "N", "e", "i", "l">>
      [] s = "Ann O&#x27;Neil" -> <<"A", "n", "n", " ", "O", "&", "#", "x", "2", "7", ";", "N", "e", "i", "l">>
      [] s = "Steps & notes" -> <<"S", "t", "e", "p", "s", " ", "&", " ", "n", "o", "t", "e", "s">>
      [] s = "Steps &amp; notes" -> <<"S", "t", "e", "p", "s", " ", "&", "a", "m", "p", ";", " ", "n", "o", "t", "e", "s">>
      [] s = "Launch" -> <<"L", "a", "u", "n", "c", "h">>
      [] s = "Launch <v2>" -> <<"L", "a", "u", "n", "c", "h", " ", "<", "v", "2", ">">>
      [] s = "Launch &lt;v2&gt;" -> <<"L", "a", "u", "n", "c", "h", " ", "&", "l", "t", ";", "v", "2", "&", "g", "t", ";">>
      [] s = "Ship it" -> <<"S", "h", "i", "p", " ", "i", "t">>
      [] s = "PROJ-1" -> <<"P", "R", "O", "J", "-", "1">>
      [] s = "Progress 50%" -> <<"P", "r", "o", "g", "r", "e", "s", "s", " ", "5", "0", "%">>
      [] s = "\\n" -> <<"LF">>
      [] s = "<b>No blockers</b>" -> <<"<", "b", ">", "N", "o", " ", "b", "l", "o", "c", "k", "e", "r", "s", "<", "/", "b", ">">>
      [] s = "&lt;b&gt;No blockers&lt;/b&gt;" -> <<"&", "l", "t", ";", "b", "&", "g", "t", ";", "N", "o", " ", "b", "l", "o", "c", "k", "e", "r", "s", "&", "l", "t", ";", "/", "b", "&", "g", "t", ";">>
      [] s = "analysis temporarily unavailable" -> <<"a", "n", "a", "l", "y", "s", "i", "s", " ", "t", "e", "m", "p", "o", "r", "a", "r", "i", "l", "y", " ", "u", "n", "a", "v", "a", "i", "l", "a", "b", "l", "e">>
      [] s = "analysis unavailable" -> <<"a", "n", "a", "l", "y", "s", "i", "s", " ", "u", "n", "a", "v", "a", "i", "l", "a", "b", "l", "e">>
      [] s = "Unassigned" -> <<"U", "n", "a", "s", "s", "i", "g", "n", "e", "d">>

\* The text with the given characters.
Str(cs) == CHOOSE s \in Texts : Chars(s) = cs

UPPER == <<"A", "B", "C", "D", "E", "F", "G", "H", "I", "J", "K", "L", "M",
           "N", "O", "P", "Q", "R", "S", "T", "U", "V", "W", "X", "Y", "Z">>

LOWER == <<"a", "b", "c", "d", "e", "f", "g", "h", "i", "j", "k", "l", "m",
           "n", "o", "p", "q", "r", "s", "t", "u", "v", "w", "x", "y", "z">>

\* str.lower() (lines 312-322), character by character.
Lower(cs) ==
    [i \in 1 .. Len(cs) |->
        IF \E k \in 1 .. Len(UPPER) : UPPER[k] = cs[i]
        THEN LOWER[CHOOSE k \in 1 .. Len(UPPER) : UPPER[k] = cs[i]]
        ELSE cs[i]]

\* needle in hay (lines 312-322): hay holds needle as a substring.
Contains(hay, needle) ==
    \E i \in 0 .. Len(hay) - Len(needle) :
        SubSeq(hay, i + 1, i + Len(needle)) = needle

\* html.escape(s) with quote=True: & < > " ' replaced, in one pass.
EscapeChar(c) ==
    CASE c = "&" -> <<"&", "a", "m", "p", ";">>
      [] c = "<" -> <<"&", "l", "t", ";">>
      [] c = ">" -> <<"&", "g", "t", ";">>
      [] c = "\"" -> <<"&", "q", "u", "o", "t", ";">>
      [] c = "'" -> <<"&", "#", "x", "2", "7", ";">>
      [] OTHER -> <<c>>

RECURSIVE EscapeChars(_)
EscapeChars(cs) ==
    IF cs = <<>> THEN <<>> ELSE EscapeChar(Head(cs)) \o EscapeChars(Tail(cs))

(* ------------------------------ tracker ------------------------------- *)

\* The orders in which the tracker may hold the issues' "updated" values.
Orders == {"oldest_first", "newest_first", "ties"}

\* fields.get("updated", "") of the i-th issue the search returns: its
\* timestamp, or "" (the empty sequence) when the field is absent.
Updated(i) ==
    CASE jira.order = "oldest_first" -> Stamp(i)
      [] jira.order = "newest_first" -> Stamp(999 - i)
      [] OTHER -> IF i % 4 = 0 THEN <<>> ELSE Stamp(i % 3)

\* The status names the tracker's issues carry (Missing: no name).
Statuses ==
    <<"Gotovo", "V PROGRESSE", "Open", "", "Gotov k progressu",
      "Progress: GOTOVO", Missing>>

\* The priority names the tracker's issues carry.
Priorities ==
    <<"Vysokij", "SREDNIJ", "Nizkij", "", "High", "Sredne-vysokij", Missing>>

\* The other texts of an issue: type, summary, description, assignee
\* (None: "assignee": null).
IssueTypes == <<"Task", "Bug">>

Summaries == <<"Fix login", "Add <b>bold</b>", Missing>>

Descriptions == <<"Steps & notes", "", Missing>>

Assignees == <<"Ann O'Neil", None, Missing>>

\* The i-th issue takes the entries of each list in turn.
Pick(list, i) == list[((i - 1) % Len(list)) + 1]

\* The i-th issue matching the JQL filter, in the tracker's own order.
JiraIssue(i) ==
    [key |-> i,
     updated |-> Updated(i),
     priority |-> IF i = jira.null_priority THEN None ELSE Pick(Priorities, i),
     status |-> Pick(Statuses, i),
     issuetype |-> Pick(IssueTypes, i),
     summary |-> Pick(Summaries, i),
     description |-> Pick(Descriptions, i),
     assignee |-> Pick(Assignees, i)]

JiraMatching == [i \in 1 .. jira.total |-> JiraIssue(i)]

\* The body of a 2xx answer of /rest/api/3/search (lines 107, 116); a
\* tracker that does not report the count leaves "total" out.
SearchResponse(startAt, maxResults) ==
    [issues |-> SubSeq(JiraMatching, startAt + 1,
                       Min(startAt + maxResults, jira.total)),
     has_total |-> jira.reports_total,
     total |-> IF jira.reports_total THEN jira.total ELSE 0]

\* The JQL filter and field list of lines 100-101.
jql == "\"Epic Link\" = " \o epic_key \o " OR \"Parent Link\" = " \o epic_key

fields == "summary,status,assignee,updated,description,comment,issuetype,priority"

(* -------------------------- get_epic_info ----------------------------- *)

\* The "fields" objects the tracker may hold for the epic: summary and
\* description present, null, or absent.
EpicFields ==
    {[summary |-> "Launch", description |-> "Ship it"],
     [summary |-> "Launch", description |-> None],
     [summary |-> Missing, description |-> Missing]}

\* The body of a 2xx answer of /rest/api/3/issue/{epic_key} (lines 80, 89).
EpicResponse == [summary |-> jira.summary, description |-> jira.description]

\* A user of the tracker renames the epic.
RenameEpic ==
    /\ jira.summary = "Launch"
    /\ jira' = [jira EXCEPT !.summary = "Launch <v2>"]
    /\ UNCHANGED <<deepseek, store, pc, epic_info, start_at, all_issues,
                   issues, analysis, content, page, requests, returned, raised>>

\* The dict returned by get_epic_info (lines 89-94).
EpicInfo(resp) ==
    [key |-> epic_key,
     summary |-> Get(resp.summary, ""),
     description |-> Get(resp.description, "")]

\* main's locals before their assignment.
NoEpic == [key |-> "", summary |-> "", description |-> ""]

\* A get_jira_issues that swallows a failed page request, so that main
\* goes on with what it has.
AbortMutantPartial(call) ==
    IF call = "get_jira_issues" THEN "analyze_with_deepseek" ELSE "exit1"

\* A main that goes on to the write after a failed lookup.
AbortMutantSwallow(call) ==
    IF call = "find_confluence_page" THEN "update_confluence_page" ELSE "exit1"

\* A main that goes on to the search after a failed fetch of the epic.
AbortMutantSkipEpic(call) ==
    IF call = "get_epic_info" THEN "get_jira_issues" ELSE "exit1"

\* A get_jira_issues that asks for a failed page again.
AbortMutantRepeatSearch(call) ==
    IF call = "get_jira_issues" THEN "get_jira_issues" ELSE "exit1"

\* A main that looks the page up again after a refused write.
AbortMutantRetry(call) ==
    IF call = "update_confluence_page" THEN "find_confluence_page" ELSE "exit1"

\* main's handler (lines 393-395): an exception raised by the named call
\* is logged and the process exits with status 1.
Abort(call) == "exit1"

\* One request appended to a run's log.
Sent(r, req) == [requests EXCEPT ![r] = Append(@, req)]

\* A call of main returned normally.
Returned(r, call) == [returned EXCEPT ![r] = Append(@, call)]

GetEpicInfoReq(ok) ==
    [to |-> "jira", method |-> "GET", op |-> "issue", key |-> epic_key, ok |-> ok]

\* get_epic_info (lines 78-96) as called by main (line 384).
GetEpicInfo(r) ==
    /\ pc[r] = "get_epic_info"
    /\ \/ \* requests.get or raise_for_status raises: ConnectionError (95-96)
          /\ requests' = Sent(r, GetEpicInfoReq(FALSE))
          /\ raised' = [raised EXCEPT ![r] = "ConnectionError"]
          /\ pc' = [pc EXCEPT ![r] = Abort("get_epic_info")]
          /\ UNCHANGED <<epic_info, returned>>
       \/ /\ requests' = Sent(r, GetEpicInfoReq(TRUE))
          /\ epic_info' = [epic_info EXCEPT ![r] = EpicInfo(EpicResponse)]
          /\ returned' = Returned(r, "get_epic_info")
          /\ pc' = [pc EXCEPT ![r] = "get_jira_issues"]
          /\ UNCHANGED raised
    /\ UNCHANGED <<jira, deepseek, store, start_at, all_issues, issues, analysis,
                   content, page>>

(* -------------------------- get_jira_issues --------------------------- *)

\* The stable descending merge of two sorted runs: an element of the left
\* run goes before the elements of the right run whose key is not greater,
\* so equal keys keep their original order (sorted(..., reverse=True)
\* keeps the sort stable). The left run is split at its middle element.
RECURSIVE MergeDesc(_, _)
MergeDesc(a, b) ==
    IF a = <<>> THEN b
    ELSE IF b = <<>> THEN a
    ELSE LET h == (Len(a) + 1) \div 2
             m == a[h]
             k == Cardinality({j \in 1 .. Len(b) :
                                  StrLess(m.updated, b[j].updated)})
         IN  MergeDesc(SubSeq(a, 1, h - 1), SubSeq(b, 1, k))
                 \o <<m>>
                 \o MergeDesc(SubSeq(a, h + 1, Len(a)), SubSeq(b, k + 1, Len(b)))

RECURSIVE MergeSortDesc(_)
MergeSortDesc(s) ==
    IF Len(s) <= 1 THEN s
    ELSE LET h == Len(s) \div 2
         IN  MergeDesc(MergeSortDesc(SubSeq(s, 1, h)),
                       MergeSortDesc(SubSeq(s, h + 1, Len(s))))

\* A get_jira_issues that returns all_issues as accumulated.
SortedMutantUnsorted(s) == s

\* sorted(all_issues, key=updated, reverse=True) (lines 125-129).
SortedByUpdatedDesc(s) == MergeSortDesc(s)

\* A cursor that advances by one less than the page size.
NextStartAtMutantOverlap(s) == s + max_results - 1

\* start_at += max_results (line 121).
NextStartAt(s) == s + max_results

\* data.get("total", 0) (line 119)
TotalOf(data) == IF data.has_total THEN data.total ELSE 0

\* An exit test that asks for one more page when the total is a multiple
\* of the page size.
LastPageMutantStrict(s, data) == s + max_results > TotalOf(data)

\* The loop's exit test (line 119).
LastPage(s, data) == s + max_results >= TotalOf(data)

SearchReq(s, ok) ==
    [to |-> "jira", method |-> "GET", op |-> "search", jql |-> jql,
     fields |-> fields, startAt |-> s, maxResults |-> max_results, ok |-> ok]

\* One iteration of the loop of get_jira_issues (lines 106-123); the last
\* iteration includes the sort and the return (lines 125-129, main 385).
GetJiraIssuesPage(r) ==
    /\ pc[r] = "get_jira_issues"
    /\ \/ \* the page request raises: ConnectionError (122-123)
          /\ requests' = Sent(r, SearchReq(start_at[r], FALSE))
          /\ raised' = [raised EXCEPT ![r] = "ConnectionError"]
          /\ pc' = [pc EXCEPT ![r] = Abort("get_jira_issues")]
          /\ UNCHANGED <<start_at, all_issues, issues, returned>>
       \/ LET data == SearchResponse(start_at[r], max_results)
              acc == all_issues[r] \o data.issues
          IN  /\ requests' = Sent(r, SearchReq(start_at[r], TRUE))
              /\ all_issues' = [all_issues EXCEPT ![r] = acc]
              /\ IF LastPage(start_at[r], data)
                 THEN /\ issues' = [issues EXCEPT ![r] = SortedByUpdatedDesc(acc)]
                      /\ returned' = Returned(r, "get_jira_issues")
                      /\ pc' = [pc EXCEPT ![r] = "analyze_with_deepseek"]
                      /\ UNCHANGED start_at
                 ELSE /\ start_at' = [start_at EXCEPT ![r] = NextStartAt(@)]
                      /\ UNCHANGED <<issues, returned, pc>>
              /\ UNCHANGED raised
    /\ UNCHANGED <<jira, deepseek, store, epic_info, analysis, content, page>>

(* ----------------------- analyze_with_deepseek ------------------------ *)

\* A text is the sequence of its lines' and separators' tokens.
NL == "\\n"

\* "Analiz vremenno nedostupen" (line 172)
PLACEHOLDER == <<"analysis temporarily unavailable">>

\* "Analiz nedostupen" (line 169)
NO_CONTENT == <<"analysis unavailable">>

\* A digest of every issue.
FirstIssuesMutantAll(iss) == iss

\* issues[:50] (line 143)
FirstIssues(iss) == SubSeq(iss, 1, Min(digest_limit, Len(iss)))

\* fields.get('priority', {}).get('name', 'N/A') (lines 142, 306) is an
\* AttributeError when the field is present with the value null.
NameOf(field) == IF field = Missing THEN "N/A" ELSE field

NameRaises(field) == field = None

\* The entries of tasks_text (lines 138-143): index, key and the names.
Digest(iss) ==
    [i \in 1 .. Len(FirstIssues(iss)) |->
        [index |-> i, key |-> iss[i].key,
         issuetype |-> NameOf(iss[i].issuetype),
         summary |-> NameOf(iss[i].summary),
         status |-> NameOf(iss[i].status),
         priority |-> NameOf(iss[i].priority)]]

\* Building tasks_text raises (it is built outside the try of line 161).
DigestRaises(iss) ==
    \E i \in 1 .. Len(FirstIssues(iss)) : NameRaises(iss[i].priority)

\* The JSON bodies of a 2xx answer of the summarizer: a content, no
\* content, no "choices" key, an empty "choices" list.
DeepseekBodies ==
    {[shape |-> "content", has_choices |-> TRUE,
      choices |-> <<[content |-> <<"Progress 50%", NL, "<b>No blockers</b>">>]>>],
     [shape |-> "no_content", has_choices |-> TRUE,
      choices |-> <<[content |-> <<Missing>>]>>],
     [shape |-> "no_choices", has_choices |-> FALSE, choices |-> <<>>],
     [shape |-> "empty_choices", has_choices |-> TRUE, choices |-> <<>>]}

\* What a call of the summarizer may end in: requests.post or
\* raise_for_status raising, or a 2xx answer of one of the shapes.
DeepseekOutcomes == {"RequestException"} \cup {b.shape : b \in DeepseekBodies}

\* response.json().get("choices", [{}]) (line 169)
Choices(body) ==
    IF body.has_choices THEN body.choices ELSE <<[content |-> <<Missing>>]>>

\* ...[0] of line 169 is an IndexError on an empty list; the handler of
\* line 170 catches RequestException only.
AnswerRaises(body) == Choices(body) = <<>>

\* ...[0].get("message", {}).get("content", default) (line 169)
AnswerText(body) ==
    LET c == Choices(body)[1].content
    IN  IF c = <<Missing>> THEN NO_CONTENT ELSE c

DeepseekReq(iss, ok) ==
    [to |-> "deepseek", method |-> "POST", op |-> "chat",
     digest |-> Digest(iss), ok |-> ok]

\* analyze_with_deepseek (lines 131-172) as called by main (line 386).
AnalyzeWithDeepseek(r) ==
    /\ pc[r] = "analyze_with_deepseek"
    /\ IF DigestRaises(issues[r])
       THEN /\ raised' = [raised EXCEPT ![r] = "AttributeError"]
            /\ pc' = [pc EXCEPT ![r] = Abort("analyze_with_deepseek")]
            /\ UNCHANGED <<analysis, requests, returned>>
       ELSE \/ \* requests.post or raise_for_status raises (170-172)
               /\ "RequestException" \in deepseek
               /\ requests' = Sent(r, DeepseekReq(issues[r], FALSE))
               /\ analysis' = [analysis EXCEPT ![r] = PLACEHOLDER]
               /\ returned' = Returned(r, "analyze_with_deepseek")
               /\ pc' = [pc EXCEPT ![r] = "generate_content"]
               /\ UNCHANGED raised
            \/ \E body \in DeepseekBodies :
               /\ body.shape \in deepseek
               /\ requests' = Sent(r, DeepseekReq(issues[r], TRUE))
               /\ IF AnswerRaises(body)
                  THEN /\ raised' = [raised EXCEPT ![r] = "IndexError"]
                       /\ pc' = [pc EXCEPT ![r] = Abort("analyze_with_deepseek")]
                       /\ UNCHANGED <<analysis, returned>>
                  ELSE /\ analysis' = [analysis EXCEPT ![r] = AnswerText(body)]
                       /\ returned' = Returned(r, "analyze_with_deepseek")
                       /\ pc' = [pc EXCEPT ![r] = "generate_content"]
                       /\ UNCHANGED raised
    /\ UNCHANGED <<jira, deepseek, store, epic_info, start_at, all_issues, issues,
                   content, page>>

(* -------------------------- generate_content -------------------------- *)

\* html.escape(s) (lines 284-285, 303-309).
escape(s) == Str(EscapeChars(Chars(s)))

\* html.escape(None) is an AttributeError (None has no replace).
EscapeRaises(s) == s = None

\* analysis.replace('\n', '<br>') (line 349)
ReplaceNL(text) == [i \in 1 .. Len(text) |-> IF text[i] = NL THEN "<br>" ELSE text[i]]

\* "gotov" (line 312) and "progres" (line 314)
DONE_TOKEN == <<"g", "o", "t", "o", "v">>

PROGRESS_TOKEN == <<"p", "r", "o", "g", "r", "e", "s">>

\* "vysok" (line 320) and "sredn" (line 322)
HIGH_TOKEN == <<"v", "y", "s", "o", "k">>

MEDIUM_TOKEN == <<"s", "r", "e", "d", "n">>

\* A classification that looks for the in-progress token first.
StatusClassMutantProgressFirst(status) ==
    IF Contains(Lower(Chars(status)), PROGRESS_TOKEN) THEN "status-inprogress"
    ELSE IF Contains(Lower(Chars(status)), DONE_TOKEN) THEN "status-done"
    ELSE "status-open"

\* status_class of the escaped status name (lines 311-317).
StatusClass(status) ==
    IF Contains(Lower(Chars(status)), DONE_TOKEN) THEN "status-done"
    ELSE IF Contains(Lower(Chars(status)), PROGRESS_TOKEN) THEN "status-inprogress"
    ELSE "status-open"

\* A classification that compares without lowering the case.
PriorityClassMutantCaseSensitive(priority) ==
    IF Contains(Chars(priority), HIGH_TOKEN) THEN "priority-high"
    ELSE IF Contains(Chars(priority), MEDIUM_TOKEN) THEN "priority-medium"
    ELSE "priority-low"

\* priority_class of the escaped priority name (lines 319-325).
PriorityClass(priority) ==
    IF Contains(Lower(Chars(priority)), HIGH_TOKEN) THEN "priority-high"
    ELSE IF Contains(Lower(Chars(priority)), MEDIUM_TOKEN) THEN "priority-medium"
    ELSE "priority-low"

\* "Ne naznachen" (line 307)
UNASSIGNED == "Unassigned"

\* "Net opisaniya" (line 336)
NO_DESCRIPTION == "No description"

\* The assignee cell (line 307): the escaped display name when the field
\* is truthy, the fixed label otherwise.
AssigneeCell(assignee) ==
    IF assignee \in {None, Missing} THEN UNASSIGNED ELSE escape(assignee)

\* markdown(text) of a one-paragraph text: the paragraph element.
markdown(text) == IF text = "" THEN "" ELSE "<p>" \o text \o "</p>"

\* The description cell (lines 309, 336).
DescriptionCell(description) ==
    LET d == escape(Get(description, ""))
    IN  IF d # "" THEN markdown(d) ELSE NO_DESCRIPTION

\* One table row (lines 300-342).
Row(issue) ==
    [key |-> issue.key,
     issuetype |-> escape(NameOf(issue.issuetype)),
     priority |-> escape(NameOf(issue.priority)),
     priority_class |-> PriorityClass(escape(NameOf(issue.priority))),
     summary |-> escape(NameOf(issue.summary)),
     description |-> DescriptionCell(issue.description),
     status |-> escape(NameOf(issue.status)),
     status_class |-> StatusClass(escape(NameOf(issue.status))),
     assignee |-> AssigneeCell(issue.assignee),
     updated |-> SubSeq(issue.updated, 1, Min(10, Len(issue.updated)))]

\* A loop that prepends each row to the table.
RowsMutantPrepend(iss) == [i \in 1 .. Len(iss) |-> Row(iss[Len(iss) + 1 - i])]

\* The rows of the table: the loop over issues appends one row per issue
\* (lines 300-342).
Rows(iss) == [i \in 1 .. Len(iss) |-> Row(iss[i])]

\* The parts of the returned markup that depend on the inputs (line 360);
\* the footer's time.strftime stamp is left out.
Content(iss, an, epic) ==
    [header |-> [key |-> escape(epic.key), summary |-> escape(epic.summary),
                 description |-> markdown(escape(epic.description))],
     rows |-> Rows(iss),
     analysis |-> ReplaceNL(an)]

\* generate_content raises: escape(None) in the header (lines 284-285) or
\* None.get in a row (line 306).
ContentRaises(iss, epic) ==
    \/ EscapeRaises(epic.summary)
    \/ EscapeRaises(epic.description)
    \/ \E i \in 1 .. Len(iss) : NameRaises(iss[i].priority)

NoContent == [header |-> NoEpic, rows |-> <<>>, analysis |-> <<>>]

\* generate_content (lines 229-360) as called by main (line 387).
GenerateContent(r) ==
    /\ pc[r] = "generate_content"
    /\ IF ContentRaises(issues[r], epic_info[r])
       THEN /\ raised' = [raised EXCEPT ![r] = "AttributeError"]
            /\ pc' = [pc EXCEPT ![r] = Abort("generate_content")]
            /\ UNCHANGED <<content, returned>>
       ELSE /\ content' = [content EXCEPT ![r] =
                               Content(issues[r], analysis[r], epic_info[r])]
            /\ returned' = Returned(r, "generate_content")
            /\ pc' = [pc EXCEPT ![r] = "find_confluence_page"]
            /\ UNCHANGED raised
    /\ UNCHANGED <<jira, deepseek, store, epic_info, start_at, all_issues, issues,
                   analysis, page, requests>>

(* --------------------------- document store --------------------------- *)

\* f"Status of epic {epic_key}" (line 176): the title find_confluence_page
\* asks for.
LookupTitle(key) == "Status of epic " \o key

\* f"Status of epic {epic_info['key']} - {epic_info['summary']}" (line 191)
PageTitle(epic) == "Status of epic " \o epic.key \o " - " \o epic.summary

\* A page made by hand under the title line 176 looks for.
ManualPage ==
    [id |-> 1, title |-> LookupTitle(epic_key), space |-> space_key,
     version |-> 1, body |-> NoContent, by |-> 0]

\* The store's answer to content?spaceKey=..&title=..: the pages of the
\* space whose title is exactly the one asked for, in the store's order.
StoreResults(space, title) ==
    SelectSeq(store, LAMBDA p : p.space = space /\ p.title = title)

\* The store takes a creation unless the space holds the title, and an
\* update of an existing page whose version is the current one plus 1 and
\* whose title no other page of the space holds.
StoreAccepts(req) ==
    IF req.method = "POST"
    THEN StoreResults(req.space, req.title) = <<>>
    ELSE /\ req.id \in 1 .. Len(store)
         /\ req.version = store[req.id].version + 1
         /\ \A i \in 1 .. Len(store) :
               (i # req.id /\ store[i].space = store[req.id].space)
                   => store[i].title # req.title

\* The store after an accepted request of run r.
StoreApply(req, r) ==
    IF req.method = "POST"
    THEN Append(store, [id |-> Len(store) + 1, title |-> req.title,
                        space |-> req.space, version |-> 1,
                        body |-> req.body.value, by |-> r])
    ELSE [store EXCEPT ![req.id] =
             [@ EXCEPT !.title = req.title, !.version = req.version,
                       !.body = req.body.value]]

(* ------------------------ find_confluence_page ------------------------ *)

\* "absent": find_confluence_page returned None.
NoPage == [id |-> 0, version |-> 0, title |-> ""]

\* results[0] if results else None (line 185), with the fields of the page
\* that update_confluence_page reads.
FirstOrNone(results) ==
    IF results # <<>>
    THEN [id |-> results[1].id, version |-> results[1].version,
          title |-> results[1].title]
    ELSE NoPage

FindReq(title, ok) ==
    [to |-> "confluence", method |-> "GET", op |-> "find",
     space |-> space_key, title |-> title, ok |-> ok]

\* find_confluence_page (lines 174-187) as called by main (line 388).
FindConfluencePage(r) ==
    /\ pc[r] = "find_confluence_page"
    /\ \/ \* requests.get or raise_for_status raises (186-187)
          /\ requests' = Sent(r, FindReq(LookupTitle(epic_key), FALSE))
          /\ raised' = [raised EXCEPT ![r] = "ConnectionError"]
          /\ pc' = [pc EXCEPT ![r] = Abort("find_confluence_page")]
          /\ UNCHANGED <<page, returned>>
       \/ /\ requests' = Sent(r, FindReq(LookupTitle(epic_key), TRUE))
          /\ page' = [page EXCEPT ![r] =
                         FirstOrNone(StoreResults(space_key, LookupTitle(epic_key)))]
          /\ returned' = Returned(r, "find_confluence_page")
          /\ pc' = [pc EXCEPT ![r] = "update_confluence_page"]
          /\ UNCHANGED raised
    /\ UNCHANGED <<jira, deepseek, store, epic_info, start_at, all_issues, issues,
                   analysis, content>>

(* ----------------------- update_confluence_page ----------------------- *)

\* The "body" object of the JSON data (lines 198-203).
Body(cont) == [value |-> cont, representation |-> "storage"]

\* An update that sends the version it read.
RequestDataMutantSameVersion(existing_page, cont, epic) ==
    IF existing_page # NoPage
    THEN [method |-> "PUT", id |-> existing_page.id, title |-> PageTitle(epic),
          body |-> Body(cont), version |-> existing_page.version]
    ELSE [method |-> "POST", title |-> PageTitle(epic), body |-> Body(cont),
          space |-> space_key]

\* A request whose data gets the space key before the branch, so that an
\* update carries it too.
RequestDataMutantSpaceOnUpdate(existing_page, cont, epic) ==
    IF existing_page # NoPage
    THEN [method |-> "PUT", id |-> existing_page.id, title |-> PageTitle(epic),
          body |-> Body(cont), version |-> existing_page.version + 1,
          space |-> space_key]
    ELSE [method |-> "POST", title |-> PageTitle(epic), body |-> Body(cont),
          space |-> space_key]

\* The method, URL and JSON data of lines 195-213.
RequestData(existing_page, cont, epic) ==
    IF existing_page # NoPage
    THEN [method |-> "PUT", id |-> existing_page.id, title |-> PageTitle(epic),
          body |-> Body(cont), version |-> existing_page.version + 1]
    ELSE [method |-> "POST", title |-> PageTitle(epic), body |-> Body(cont),
          space |-> space_key]

\* reply: what came back ("none": the request raised before any answer).
WriteReq(data, reply) ==
    [to |-> "confluence", method |-> data.method, op |-> "write",
     data |-> data, reply |-> reply,
     accepted |-> reply \in {"2xx", "2xx lost"}, ok |-> reply = "2xx"]

\* update_confluence_page (lines 189-227) as called by main (line 389),
\* with the log line and the normal end of main (line 391).
UpdateConfluencePage(r) ==
    /\ pc[r] = "update_confluence_page"
    /\ LET data == RequestData(page[r], content[r], epic_info[r])
       IN  \/ \* the request does not reach the store (226-227)
              /\ requests' = Sent(r, WriteReq(data, "none"))
              /\ raised' = [raised EXCEPT ![r] = "ConnectionError"]
              /\ pc' = [pc EXCEPT ![r] = Abort("update_confluence_page")]
              /\ UNCHANGED <<store, returned>>
           \/ \* the store answers non-2xx: raise_for_status raises (224)
              /\ ~StoreAccepts(data)
              /\ requests' = Sent(r, WriteReq(data, "non-2xx"))
              /\ raised' = [raised EXCEPT ![r] = "ConnectionError"]
              /\ pc' = [pc EXCEPT ![r] = Abort("update_confluence_page")]
              /\ UNCHANGED <<store, returned>>
           \/ \* the store takes the request and its answer is lost (timeout)
              /\ StoreAccepts(data)
              /\ store' = StoreApply(data, r)
              /\ requests' = Sent(r, WriteReq(data, "2xx lost"))
              /\ raised' = [raised EXCEPT ![r] = "ConnectionError"]
              /\ pc' = [pc EXCEPT ![r] = Abort("update_confluence_page")]
              /\ UNCHANGED returned
           \/ \* the store takes the request and answers 2xx
              /\ StoreAccepts(data)
              /\ store' = StoreApply(data, r)
              /\ requests' = Sent(r, WriteReq(data, "2xx"))
              /\ returned' = Returned(r, "update_confluence_page")
              /\ pc' = [pc EXCEPT ![r] = "exit0"]
              /\ UNCHANGED raised
    /\ UNCHANGED <<jira, deepseek, epic_info, start_at, all_issues, issues, analysis,
                   content, page>>

(* --------------------------- specifications --------------------------- *)

\* The issue counts around the page boundaries.
Totals == {0, 1, max_results, max_results + 1, 2 * max_results, MaxTotal}

\* Issue counts that fit one page.
SmallTotals == {0, 1}

InitWith(totals, orders, outcomes, active, reporting) ==
    /\ \E t \in [total : totals, order : orders, null_priority : {0, 1},
                  reports_total : reporting] :
       \E e \in EpicFields :
          jira = [total |-> t.total, order |-> t.order,
                  null_priority |-> t.null_priority,
                  reports_total |-> t.reports_total,
                  summary |-> e.summary, description |-> e.description]
    /\ deepseek = outcomes
    /\ store \in {<<>>, <<ManualPage>>}
    /\ pc = [r \in Runs |-> IF r \in active THEN "get_epic_info" ELSE "not_started"]
    /\ epic_info = [r \in Runs |-> NoEpic]
    /\ start_at = [r \in Runs |-> 0]
    /\ all_issues = [r \in Runs |-> <<>>]
    /\ issues = [r \in Runs |-> <<>>]
    /\ analysis = [r \in Runs |-> <<>>]
    /\ content = [r \in Runs |-> NoContent]
    /\ page = [r \in Runs |-> NoPage]
    /\ requests = [r \in Runs |-> <<>>]
    /\ returned = [r \in Runs |-> <<>>]
    /\ raised = [r \in Runs |-> "none"]

\* Every run executes main for the same epic, against a small tracker.
Init ==
    InitWith(SmallTotals, {"ties"}, {"RequestException", "empty_choices"}, Runs,
             {TRUE})

\* One run of main, against trackers of every size up to MaxTotal.
InitFetch == InitWith(Totals, Orders, DeepseekOutcomes, {1}, {TRUE})

\* One run of main, against trackers that report the total and trackers
\* whose answers carry no "total".
InitPaging == InitWith(Totals, {"oldest_first"}, DeepseekOutcomes, {1}, BOOLEAN)

Next ==
    \/ RenameEpic
    \/ \E r \in Runs :
        \/ GetEpicInfo(r)
        \/ GetJiraIssuesPage(r)
        \/ AnalyzeWithDeepseek(r)
        \/ GenerateContent(r)
        \/ FindConfluencePage(r)
        \/ UpdateConfluencePage(r)

Spec == Init /\ [][Next]_vars

SpecFetch == InitFetch /\ [][Next]_vars

SpecPaging == InitPaging /\ [][Next]_vars

(* ------------------------------ properties ---------------------------- *)

HasReturned(r, call) == \E i \in 1 .. Len(returned[r]) : returned[r][i] = call

Searches(r) == SelectSeq(requests[r], LAMBDA q : q.op = "search")

ToStore(r) == SelectSeq(requests[r], LAMBDA q : q.to = "confluence")

Writes(r) == SelectSeq(requests[r], LAMBDA q : q.op = "write")

ToSummarizer(r) == SelectSeq(requests[r], LAMBDA q : q.to = "deepseek")

\* The requests of a run to the tracker and to the document store.
ToTrackerOrStore(r) == SelectSeq(requests[r], LAMBDA q : q.to # "deepseek")

\* The store was empty when the first run started and only runs wrote it.
OnlyRunsWrote == \A i \in 1 .. Len(store) : store[i].by # 0

\* C1 (as claimed): against a store that only the runs modify, starting
\* with no page, the store never holds more than one page for the epic,
\* and holds exactly one once a run has ended successfully.
C1_OnePagePerEpic ==
    OnlyRunsWrote =>
        /\ Len(store) <= 1
        /\ (\E r \in Runs : pc[r] = "exit0") => Len(store) = 1

\* C2: when get_jira_issues has returned, its result holds every issue
\* matching the filter exactly once and nothing else; the page requests
\* all carry the same filter, field set and limit 100, and their offsets
\* are 0, 100, 200, ...
C2_UnionOfPagesNoDuplicates ==
    \A r \in Runs :
        /\ \A i \in 1 .. Len(Searches(r)) :
              /\ Searches(r)[i].startAt = (i - 1) * 100
              /\ Searches(r)[i].maxResults = 100
              /\ Searches(r)[i].jql = jql
              /\ Searches(r)[i].fields = fields
        /\ HasReturned(r, "get_jira_issues") =>
              /\ Len(issues[r]) = jira.total
              /\ {issues[r][i].key : i \in 1 .. Len(issues[r])} = 1 .. jira.total
              /\ \A i \in 1 .. Len(issues[r]) :
                    issues[r][i] = JiraIssue(issues[r][i].key)

\* A fetch of three pages has returned.
C2_Witness ==
    /\ HasReturned(1, "get_jira_issues")
    /\ Len(Searches(1)) = 3
    /\ jira.total = MaxTotal

\* C3: the sequence get_jira_issues returns is sorted by "updated",
\* descending; until it returns, the pages are accumulated in the order
\* the tracker gave them and nothing has been sorted or handed to main.
C3_SortedDescAfterAccumulation ==
    \A r \in Runs :
        /\ all_issues[r] = SubSeq(JiraMatching, 1, Len(all_issues[r]))
        /\ ~HasReturned(r, "get_jira_issues") => issues[r] = <<>>
        /\ HasReturned(r, "get_jira_issues") =>
              \A i \in 1 .. Len(issues[r]) - 1 :
                  ~StrLess(issues[r][i].updated, issues[r][i + 1].updated)

\* A three-page fetch from a tracker that lists the oldest issue first
\* has returned with the newest issue first.
C3_Witness ==
    /\ HasReturned(1, "get_jira_issues")
    /\ jira.order = "oldest_first"
    /\ jira.total = MaxTotal
    /\ issues[1][1].key = MaxTotal
    /\ all_issues[1][1].key = 1

\* C4: a call of update_confluence_page with an existing page sends a PUT
\* addressed to that page's id with version number existing + 1; when the
\* store takes it, no page is added, the page keeps its id and its
\* version has grown by exactly 1.
C4_UpdateIncrementsVersion ==
    [][\A r \in Runs :
          (pc[r] = "update_confluence_page" /\ page[r] # NoPage
             /\ requests'[r] # requests[r]) =>
              LET w == requests'[r][Len(requests'[r])]
              IN  /\ w.data.method = "PUT"
                  /\ w.data.id = page[r].id
                  /\ w.data.version = page[r].version + 1
                  /\ w.accepted =>
                        /\ Len(store') = Len(store)
                        /\ store'[page[r].id].id = page[r].id
                        /\ store'[page[r].id].version = page[r].version + 1
                        /\ store'[page[r].id].version
                               = store[page[r].id].version + 1]_vars

\* A run that found an existing page has updated it and ended normally.
C4_Witness ==
    \E r \in Runs :
        /\ pc[r] = "exit0"
        /\ page[r] # NoPage
        /\ store[page[r].id].version = page[r].version + 1

\* C5 (as claimed): when a run has created the report page, a later
\* find_confluence_page for the epic returns a page, so the run that made
\* the lookup updates and does not create.
C5_FindReturnsCreatedPage ==
    [][\A r \in Runs :
          (pc[r] = "find_confluence_page"
             /\ pc'[r] = "update_confluence_page"
             /\ \E i \in 1 .. Len(store) : store[i].by # 0) =>
              page'[r] # NoPage]_vars

\* C6 (as claimed): analyze_with_deepseek returns a text whatever the
\* summarizer answers and whatever the issues hold: the run goes on to
\* generate_content.
C6_SummarizeNeverRaises ==
    [][\A r \in Runs :
          pc[r] = "analyze_with_deepseek" =>
              pc'[r] \in {"analyze_with_deepseek", "generate_content"}]_vars

\* C7 (as claimed): a run whose summarizer call failed and whose tracker
\* and store calls all succeeded does not end with a failure.
C7_DegradedRunCompletes ==
    \A r \in Runs :
        (/\ Len(ToSummarizer(r)) = 1
         /\ ~ToSummarizer(r)[1].ok
         /\ \A i \in 1 .. Len(ToTrackerOrStore(r)) : ToTrackerOrStore(r)[i].ok)
            => pc[r] # "exit1"

\* C8: a run one of whose page requests failed has exited with status 1,
\* get_jira_issues has handed nothing to main, and the run has sent no
\* lookup, create or update to the store and owns no page of it.
C8_FailedFetchPublishesNothing ==
    \A r \in Runs :
        (\E i \in 1 .. Len(Searches(r)) : ~Searches(r)[i].ok) =>
            /\ pc[r] = "exit1"
            /\ ~HasReturned(r, "get_jira_issues")
            /\ issues[r] = <<>>
            /\ ToStore(r) = <<>>
            /\ \A i \in 1 .. Len(store) : store[i].by # r

\* The third page request failed after two pages had been accumulated.
C8_Witness ==
    /\ Len(Searches(1)) = 3
    /\ ~Searches(1)[3].ok
    /\ Len(all_issues[1]) = 2 * max_results
    /\ pc[1] = "exit1"

\* C9: a failed request to the tracker or the store is the last request
\* of its run and the run has exited with status 1; a run that ended with
\* status 0 got all six calls back in order and none of its tracker or
\* store requests failed.
C9_FailureAbortsRun ==
    \A r \in Runs :
        /\ \A i \in 1 .. Len(requests[r]) :
              (requests[r][i].to # "deepseek" /\ ~requests[r][i].ok) =>
                  /\ i = Len(requests[r])
                  /\ pc[r] = "exit1"
                  /\ raised[r] = "ConnectionError"
        /\ pc[r] = "exit0" =>
              /\ returned[r] = <<"get_epic_info", "get_jira_issues",
                                  "analyze_with_deepseek", "generate_content",
                                  "find_confluence_page", "update_confluence_page">>
              /\ \A i \in 1 .. Len(ToTrackerOrStore(r)) : ToTrackerOrStore(r)[i].ok

\* A lookup failed and the run ended with status 1 without writing.
C9_Witness ==
    \E r \in Runs :
        /\ pc[r] = "exit1"
        /\ Len(ToStore(r)) = 1
        /\ ~ToStore(r)[1].ok
        /\ returned[r] = <<"get_epic_info", "get_jira_issues",
                            "analyze_with_deepseek", "generate_content">>

\* The accepted updates of page i, over all runs.
AcceptedPuts(i) ==
    {r \in Runs : \E k \in 1 .. Len(Writes(r)) :
        /\ Writes(r)[k].accepted
        /\ Writes(r)[k].data.method = "PUT"
        /\ Writes(r)[k].data.id = i}

\* C10: of the runs that read the same page at the same version and have
\* sent their update, at most one had it accepted; a run whose write was
\* not accepted has exited with status 1 after that single write and a
\* single lookup; and a page's version is its first version plus the
\* number of updates the store accepted for it.
C10_VersionCheckIsTheOnlyGuard ==
    /\ \A r1, r2 \in Runs :
          (r1 # r2 /\ page[r1] # NoPage /\ page[r1] = page[r2]
             /\ Writes(r1) # <<>> /\ Writes(r2) # <<>>) =>
              ~(Writes(r1)[1].accepted /\ Writes(r2)[1].accepted)
    /\ \A r \in Runs :
          (Writes(r) # <<>> /\ ~Writes(r)[1].accepted) =>
              /\ pc[r] = "exit1"
              /\ Len(Writes(r)) = 1
              /\ Len(ToStore(r)) = 2
    /\ \A i \in 1 .. Len(store) :
          store[i].version = 1 + Cardinality(AcceptedPuts(i))

\* Two runs read the same page at the same version; the update of one was
\* accepted and the update of the other reached the store and was refused.
C10_Witness ==
    \E r1, r2 \in Runs :
        /\ r1 # r2
        /\ page[r1] # NoPage
        /\ page[r1] = page[r2]
        /\ Writes(r1) # <<>> /\ Writes(r1)[1].accepted
        /\ Writes(r2) # <<>> /\ Writes(r2)[1].reply = "non-2xx"
        /\ Writes(r2)[1].data.version = page[r1].version + 1
        /\ store[page[r1].id].version = page[r1].version + 1
        /\ pc[r2] = "exit1"

\* generate_content has returned the markup of run r.
Rendered(r) == HasReturned(r, "generate_content")

\* C11: every status name, the empty and the unrecognized ones included,
\* gets exactly one of the classes done, in-progress, open: done when it
\* holds the done token in any letter case, else in-progress when it holds
\* the in-progress token, else open; a name holding both tokens is done.
C11_StatusClassTotalAndOrdered ==
    \A r \in Runs :
        Rendered(r) =>
            \A i \in 1 .. Len(content[r].rows) :
                LET name == Lower(Chars(NameOf(issues[r][i].status)))
                    c == content[r].rows[i].status_class
                IN  /\ c \in {"status-done", "status-inprogress", "status-open"}
                    /\ Contains(name, DONE_TOKEN) => c = "status-done"
                    /\ (~Contains(name, DONE_TOKEN)
                          /\ Contains(name, PROGRESS_TOKEN)) => c = "status-inprogress"
                    /\ (~Contains(name, DONE_TOKEN)
                          /\ ~Contains(name, PROGRESS_TOKEN)) => c = "status-open"

\* The rendered rows hold an upper-case name with both tokens, the
\* in-progress token first, classed done; an upper-case in-progress name;
\* and an empty name classed open.
C11_Witness ==
    /\ Rendered(1)
    /\ \E i \in 1 .. Len(content[1].rows) :
          /\ issues[1][i].status = "Progress: GOTOVO"
          /\ content[1].rows[i].status_class = "status-done"
    /\ \E i \in 1 .. Len(content[1].rows) :
          /\ issues[1][i].status = "V PROGRESSE"
          /\ content[1].rows[i].status_class = "status-inprogress"
    /\ \E i \in 1 .. Len(content[1].rows) :
          /\ issues[1][i].status = ""
          /\ content[1].rows[i].status_class = "status-open"

\* C12: every priority name gets exactly one of the classes high, medium,
\* low: high when it holds the high token in any letter case, else medium
\* when it holds the medium token, else low; a name holding both tokens
\* is high.
C12_PriorityClassTotalAndOrdered ==
    \A r \in Runs :
        Rendered(r) =>
            \A i \in 1 .. Len(content[r].rows) :
                LET name == Lower(Chars(NameOf(issues[r][i].priority)))
                    c == content[r].rows[i].priority_class
                IN  /\ c \in {"priority-high", "priority-medium", "priority-low"}
                    /\ Contains(name, HIGH_TOKEN) => c = "priority-high"
                    /\ (~Contains(name, HIGH_TOKEN)
                          /\ Contains(name, MEDIUM_TOKEN)) => c = "priority-medium"
                    /\ (~Contains(name, HIGH_TOKEN)
                          /\ ~Contains(name, MEDIUM_TOKEN)) => c = "priority-low"

\* The rendered rows hold a name with both tokens, the medium token first,
\* classed high; an upper-case medium name; and an unrecognized and an
\* absent name classed low.
C12_Witness ==
    /\ Rendered(1)
    /\ \E i \in 1 .. Len(content[1].rows) :
          /\ issues[1][i].priority = "Sredne-vysokij"
          /\ content[1].rows[i].priority_class = "priority-high"
    /\ \E i \in 1 .. Len(content[1].rows) :
          /\ issues[1][i].priority = "SREDNIJ"
          /\ content[1].rows[i].priority_class = "priority-medium"
    /\ \E i \in 1 .. Len(content[1].rows) :
          /\ issues[1][i].priority = "High"
          /\ content[1].rows[i].priority_class = "priority-low"
    /\ \E i \in 1 .. Len(content[1].rows) :
          /\ issues[1][i].priority = Missing
          /\ content[1].rows[i].priority_class = "priority-low"

\* The calls of main in their order (lines 384-389).
Stages ==
    <<"get_epic_info", "get_jira_issues", "analyze_with_deepseek",
      "generate_content", "find_confluence_page", "update_confluence_page">>

\* The position in Stages of the call that sends a request.
StageOfRequest(q) ==
    CASE q.op = "issue" -> 1
      [] q.op = "search" -> 2
      [] q.op = "chat" -> 3
      [] q.op = "find" -> 5
      [] q.op = "write" -> 6

\* C13: the calls that have returned are a prefix of fetch epic, fetch
\* issues, summarize, render, find page, upsert; a run that is in one of
\* the calls got every earlier call back and none of the later ones; the
\* requests of a run follow the same order; when the summarizer has been
\* called, every page of the search was accumulated and sorted before;
\* and a write is preceded by an answered lookup of the same run.
C13_StagesInOrder ==
    \A r \in Runs :
        /\ Len(returned[r]) <= Len(Stages)
        /\ returned[r] = SubSeq(Stages, 1, Len(returned[r]))
        /\ \A k \in 1 .. Len(Stages) :
              pc[r] = Stages[k] => Len(returned[r]) = k - 1
        /\ \A i, j \in 1 .. Len(requests[r]) :
              i < j => StageOfRequest(requests[r][i]) <= StageOfRequest(requests[r][j])
        /\ ToSummarizer(r) # <<>> =>
              /\ HasReturned(r, "get_jira_issues")
              /\ all_issues[r] = JiraMatching
              /\ Len(issues[r]) = Len(all_issues[r])
        /\ Writes(r) # <<>> =>
              /\ HasReturned(r, "find_confluence_page")
              /\ Len(Writes(r)) = 1
              /\ \E i \in 1 .. Len(requests[r]) - 1 :
                    requests[r][i].op = "find" /\ requests[r][i].ok

\* A run over three pages has ended normally: three searches, then the
\* summarizer, then the lookup, then the write.
C13_Witness ==
    /\ pc[1] = "exit0"
    /\ jira.total = MaxTotal
    /\ Len(requests[1]) = 7
    /\ requests[1][4].op = "search"
    /\ requests[1][5].op = "chat"
    /\ requests[1][6].op = "find"
    /\ requests[1][7].op = "write"

\* C14 (as claimed): whatever the tracker answered for the epic, summary
\* and description absent or null included, the dict get_epic_info
\* returned holds a string in both fields ("" for an absent or null
\* one), and generate_content does not fail on the epic's fields.
C14_EpicFieldsNeverNull ==
    \A r \in Runs :
        HasReturned(r, "get_epic_info") =>
            /\ epic_info[r].summary # None
            /\ epic_info[r].description # None
            /\ (jira.summary \in {None, Missing}) => epic_info[r].summary = ""
            /\ (jira.description \in {None, Missing}) => epic_info[r].description = ""
            /\ ~(EscapeRaises(epic_info[r].summary)
                   \/ EscapeRaises(epic_info[r].description))

\* C15: the write of a run that found no page is a POST whose data holds
\* the space key and no version; the write of a run that found a page is
\* a PUT to that page's id whose data holds a version and no space; both
\* hold the title made of the epic's key and summary and the body made
\* of the rendered content with the representation "storage".
C15_CreateAndUpdateData ==
    \A r \in Runs :
        \A i \in 1 .. Len(Writes(r)) :
            LET d == Writes(r)[i].data
            IN  /\ page[r] = NoPage =>
                      /\ d.method = "POST"
                      /\ "space" \in DOMAIN d
                      /\ d.space = space_key
                      /\ "version" \notin DOMAIN d
                      /\ "id" \notin DOMAIN d
                /\ page[r] # NoPage =>
                      /\ d.method = "PUT"
                      /\ d.id = page[r].id
                      /\ "version" \in DOMAIN d
                      /\ "space" \notin DOMAIN d
                /\ d.title = PageTitle(epic_info[r])
                /\ d.body = [value |-> content[r], representation |-> "storage"]

\* One run has sent a creation and another an update, both with the same
\* title and the same body.
C15_Witness ==
    \E r1, r2 \in Runs :
        /\ Writes(r1) # <<>> /\ Writes(r2) # <<>>
        /\ Writes(r1)[1].data.method = "POST"
        /\ Writes(r2)[1].data.method = "PUT"
        /\ Writes(r1)[1].data.title = Writes(r2)[1].data.title
        /\ Writes(r1)[1].data.body = Writes(r2)[1].data.body
        /\ Len(content[r1].rows) = 1

\* C16: the rendered table holds one row per issue handed to
\* generate_content, the i-th row made of the i-th issue, so the keys of
\* the rows are the keys of the issues in the order get_jira_issues
\* returned them (newest update first); the body sent to the store holds
\* the same rows.
C16_OneRowPerIssueInOrder ==
    \A r \in Runs :
        /\ Rendered(r) =>
              /\ Len(content[r].rows) = Len(issues[r])
              /\ \A i \in 1 .. Len(issues[r]) :
                    /\ content[r].rows[i].key = issues[r][i].key
                    /\ content[r].rows[i].summary = escape(NameOf(issues[r][i].summary))
              /\ \A i \in 1 .. Len(issues[r]) - 1 :
                    ~StrLess(issues[r][i].updated, issues[r][i + 1].updated)
        /\ \A k \in 1 .. Len(Writes(r)) :
              Writes(r)[k].data.body.value.rows = content[r].rows

\* The issues of a tracker that lists the oldest first were rendered: the
\* first row is the newest issue, the last row the oldest.
C16_Witness ==
    /\ Rendered(1)
    /\ jira.order = "oldest_first"
    /\ jira.total = MaxTotal
    /\ Len(content[1].rows) = MaxTotal
    /\ content[1].rows[1].key = MaxTotal
    /\ content[1].rows[MaxTotal].key = 1
    /\ Writes(1) # <<>>

\* The number of requests of run r for the operation op.
Count(r, op) == Len(SelectSeq(requests[r], LAMBDA q : q.op = op))

\* C17: whichever requests fail, a run sends at most one request for the
\* epic, at most one to the summarizer, at most one lookup and at most
\* one write, asks for each offset of the search at most once, and a
\* failed request is never followed by another request of the same run;
\* so at most one write of a run is taken by the store.
C17_NoRetries ==
    \A r \in Runs :
        /\ Count(r, "issue") <= 1
        /\ Count(r, "chat") <= 1
        /\ Count(r, "find") <= 1
        /\ Count(r, "write") <= 1
        /\ \A i, j \in 1 .. Len(Searches(r)) :
              Searches(r)[i].startAt = Searches(r)[j].startAt => i = j
        /\ \A i \in 1 .. Len(requests[r]) - 1 :
              ~requests[r][i].ok => requests[r][i].op = "chat"
        /\ Cardinality({i \in 1 .. Len(Writes(r)) : Writes(r)[i].accepted}) <= 1

\* A run over three pages whose summarizer call failed and whose write
\* did not reach the store has ended with status 1 after seven requests.
C17_Witness ==
    /\ pc[1] = "exit1"
    /\ Len(Searches(1)) = 3
    /\ Count(1, "chat") = 1
    /\ ~ToSummarizer(1)[1].ok
    /\ Count(1, "write") = 1
    /\ Writes(1)[1].reply = "none"
    /\ Len(requests[1]) = 7

\* C18: the digest of a request to the summarizer holds min(n, 50)
\* entries for the n issues get_jira_issues returned: entry i is numbered
\* i and made of the i-th issue of the sorted sequence, so the issues
\* after position 50 are not in it.
C18_DigestIsFirstFifty ==
    \A r \in Runs :
        \A k \in 1 .. Len(ToSummarizer(r)) :
            LET d == ToSummarizer(r)[k].digest
                n == Len(issues[r])
            IN  /\ Len(d) = (IF n < 50 THEN n ELSE 50)
                /\ \A i \in 1 .. Len(d) :
                      /\ d[i].index = i
                      /\ d[i].key = issues[r][i].key
                      /\ d[i].summary = NameOf(issues[r][i].summary)
                /\ \A j \in 51 .. n :
                      \A i \in 1 .. Len(d) : d[i].key # issues[r][j].key

\* The summarizer got the digest of a sequence of MaxTotal issues: fifty
\* entries, the first of them the newest issue.
C18_Witness ==
    /\ ToSummarizer(1) # <<>>
    /\ Len(issues[1]) = MaxTotal
    /\ jira.order = "oldest_first"
    /\ Len(ToSummarizer(1)[1].digest) = 50
    /\ ToSummarizer(1)[1].digest[1].key = MaxTotal
    /\ ToSummarizer(1)[1].digest[50].key = MaxTotal - 49

\* The characters html.escape replaces.
Unsafe == {"<", ">", "&", "\"", "'"}

\* The text is what escaping makes of some remote text: it holds no
\* character that html.escape replaces, the "&" of an entity apart.
IsEscaped(s) ==
    LET cs == Chars(s)
    IN  \A i \in 1 .. Len(cs) :
            cs[i] \in Unsafe =>
                /\ cs[i] = "&"
                /\ \E j \in i + 1 .. Len(cs) : cs[j] = ";"

\* C19 (as claimed): every remote text in the rendered markup went
\* through html.escape: the epic's key and summary, each row's type,
\* priority, summary, status and assignee, and every line of the analysis
\* text are the escaped forms of what the tracker and the summarizer
\* supplied.
C19_AllRemoteTextEscaped ==
    \A r \in Runs :
        Rendered(r) =>
            /\ content[r].header.key = escape(epic_info[r].key)
            /\ content[r].header.summary = escape(epic_info[r].summary)
            /\ IsEscaped(content[r].header.summary)
            /\ \A i \in 1 .. Len(content[r].rows) :
                  /\ IsEscaped(content[r].rows[i].issuetype)
                  /\ IsEscaped(content[r].rows[i].priority)
                  /\ IsEscaped(content[r].rows[i].summary)
                  /\ IsEscaped(content[r].rows[i].status)
                  /\ IsEscaped(content[r].rows[i].assignee)
            /\ content[r].analysis
                  = ReplaceNL([i \in 1 .. Len(analysis[r]) |-> escape(analysis[r][i])])
            /\ \A i \in 1 .. Len(analysis[r]) :
                  analysis[r][i] # NL => IsEscaped(content[r].analysis[i])

\* max(1, ceil(T / 100)) for the total T the tracker reports, 0 when its
\* answers carry no total.
PagesExpected ==
    LET T == IF jira.reports_total THEN jira.total ELSE 0
        n == (T + 99) \div 100
    IN  IF n < 1 THEN 1 ELSE n

\* C20: against a tracker that reports the same total T on every page,
\* the offsets asked for are 0, 100, 200, ...; the loop is still running
\* only while fewer than max(1, ceil(T / 100)) requests were sent, never
\* sends more, and has returned after exactly that many answered
\* requests; when the answers carry no total it returns after the first.
C20_LoopStopsAfterCeilPages ==
    \A r \in Runs :
        /\ Len(Searches(r)) <= PagesExpected
        /\ \A i \in 1 .. Len(Searches(r)) :
              Searches(r)[i].startAt = (i - 1) * 100
        /\ pc[r] = "get_jira_issues" => Len(Searches(r)) < PagesExpected
        /\ HasReturned(r, "get_jira_issues") =>
              /\ Len(Searches(r)) = PagesExpected
              /\ \A i \in 1 .. Len(Searches(r)) : Searches(r)[i].ok
        /\ (~jira.reports_total /\ Searches(r) # <<>> /\ Searches(r)[1].ok) =>
              /\ HasReturned(r, "get_jira_issues")
              /\ Len(Searches(r)) = 1

\* A tracker reporting a total of exactly two pages was read with two
\* requests, and the loop has returned.
C20_Witness ==
    /\ jira.reports_total
    /\ jira.total = 2 * max_results
    /\ HasReturned(1, "get_jira_issues")
    /\ Len(Searches(1)) = 2
    /\ Searches(1)[2].startAt = 100

====
